---- MODULE Spec2Model ----
(***************************************************************************)
(* hobnob: a declarative step-based workflow engine.                       *)
(*                                                                         *)
(* FlowRunner (src/hobnob/core.py) compiles a flow definition into a       *)
(* langgraph StateGraph and drives it: every node is the retry wrapper _fn *)
(* around a step executor, every source step with more than one (or a      *)
(* conditional) transition is followed by the routing function _route,     *)
(* which asks the condition router (src/hobnob/routers.py) about each      *)
(* transition in declaration order.                                        *)
(*                                                                         *)
(* langgraph itself is a library: the model uses its StateGraph contract:  *)
(* compile() rejects an edge whose source or target is not a node (END     *)
(* excepted), a node's returned mapping is written key by key over the     *)
(* state, the edge or router of the node then selects the next node, END   *)
(* ends invoke(), and an exception of a node propagates out of invoke().   *)
(* State keys are fields of the state schema given to StateGraph.          *)
(***************************************************************************)
EXTENDS Integers, Sequences, FiniteSets, TLC

(***************************************************************************)
(* Bounds of the model.                                                    *)
(***************************************************************************)
\* largest configured retry.max_attempts
MaxAttempts == 2
\* longest run, in executed steps, that the model follows
MaxSteps == 3
\* longest transition list of one source step in the routing specification
MaxTrans == 2
\* most register calls the registry specification follows
MaxRegs == 2
\* most run calls on one engine that a recording caller makes
MaxRuns == 2

(***************************************************************************)
(* Names.                                                                  *)
(***************************************************************************)
\* Python's None: an absent condition, the terminal marker of "to"
None == "None"
\* langgraph.graph.END
END == "__end__"
\* the steps a flow definition declares, and a name no flow declares
StepNames == {"A", "B"}
Unknown == "X"
\* state fields, their values (0 is falsy, 1 truthy), and the partial
\* mappings over them
Keys == {"a", "done"}
Values == {0, 1}
States == UNION {[D -> Values] : D \in SUBSET Keys}
\* condition expressions: a field lookup on each key, and one that cannot be parsed
Conds == {"a", "done", "bad"}
\* the condition routers an engine can be constructed with
Routers == {"jmespath", "eval"}
\* step types: the built-in generative step, and a registered executor that
\* returns only the fields it changed
StepTypes == {"llm", "partial"}

NoExc == [kind |-> "none", attempt |-> 0]
ExecutorExc(n) == [kind |-> "executor", attempt |-> n]
ObserverExc(n) == [kind |-> "observer", attempt |-> n]
UnknownStepFailure == [kind |-> "RuntimeError", attempt |-> 0]
\* LLMStep: prompt.format(**state) on a field absent from state, and
\* json.loads on a model output that is no JSON
RenderExc(n) == [kind |-> "KeyError", attempt |-> n]
ParseExc(n) == [kind |-> "ValueError", attempt |-> n]

VARIABLES
    executors,         \* ExecutorRegistry._executors: step type -> factory
    registrations,     \* the ExecutorRegistry.register calls made since import
    got,               \* the last ExecutorRegistry.get: the name asked, what it
                       \* gave, and how many register calls had been made
    llm,               \* what the model given to the engine answers, per step
    state_schema,      \* the state_schema argument: given or not, and its fields
    infer_state,       \* the infer_state argument
    flow_def,          \* the flow definition the engine is constructed with
    on_step,           \* whether an observer hook was given
    condition_router,  \* the router the engine was constructed with
    enabled,           \* EvalRouter.enabled
    graph,             \* "none" | "compiled" | "ConfigError" | "ValueError"
    nodes,             \* the nodes of the compiled graph
    entry,             \* the entry point of the compiled graph
    known_fields,      \* self._known_fields
    factories,         \* the factory each node's wrapper captured at construction
    built_at,          \* how many register calls had been made at construction
    initial_state,     \* the argument of the last run call the caller recorded
    runs,              \* the run calls the caller recorded on this engine
    warned,            \* the fields the current run warned about, one set per warning
    made,              \* executor instances the factory made in the current step execution
    invoked,           \* the instance each attempt of the current step execution invoked
    used,              \* the factory that made each of these instances
    pc,                \* "idle" | "node" | "returned" | "done" | "raised"
    cur,               \* the node langgraph is executing
    state,             \* the run's state
    attempt,           \* _fn's attempt counter
    last_exc,          \* _fn's last_exc
    excs,              \* the exceptions _fn caught in the current step execution
    update,            \* the update the executor computed in its last successful call
    out,               \* what _fn returned to langgraph
    calls,             \* executor invocations of the current step execution
    sleeps,            \* time.sleep calls of the current step execution
    slept_after,       \* the attempts after which the current step execution slept
    visited,           \* the steps whose node returned, in order
    obs,               \* the observer's calls in the current run: last call and count
    raised,            \* the exception run() raised, if any
    result,            \* what run() returned
    folded,            \* the initial state with each executed step's update applied
    routed,            \* the last routing: source step, the state and flag it
                       \* read, the target selected and the router.check calls
    ui,                \* a call of a UserInputStep: where it stands, the state
                       \* it was given, the lines typed, the times the question
                       \* was presented and the complaint printed, its return
    threads            \* the run calls made from two threads on one engine:
                       \* for each, what its invoke and its call of _fn hold
                       \* (state, attempt, last_exc, out) and what it has done

vars == <<executors, registrations, got, llm, state_schema, infer_state,
          flow_def, on_step, condition_router, enabled, graph,
          nodes, entry, known_fields, factories, built_at, initial_state, runs,
          warned, made, invoked, used,
          pc, cur, state,
          attempt, last_exc, excs, update, out, calls, sleeps, slept_after,
          visited, obs,
          raised, result, folded, routed, ui, threads>>

(***************************************************************************)
(* State merge: Python's {**state, **updates}, and langgraph's write of a  *)
(* node's returned mapping over the state.                                 *)
(***************************************************************************)
\* a merge in which the previous state's value wins: {**updates, **state}
MergeKeepsOld(s, u) ==
    [k \in (DOMAIN s) \cup (DOMAIN u) |-> IF k \in DOMAIN s THEN s[k] ELSE u[k]]

Merge(s, u) ==
    [k \in (DOMAIN s) \cup (DOMAIN u) |-> IF k \in DOMAIN u THEN u[k] ELSE s[k]]

\* Python's bool() of a state value
Truthy(v) == v # 0

(***************************************************************************)
(* Condition routers.  A check is [outcome, evaluated]: outcome is "true", *)
(* "false", "error" (the evaluation raised) or "SafetyError" (the unsafe   *)
(* router was called while disabled); evaluated tells whether the          *)
(* expression was handed to the evaluator.                                 *)
(***************************************************************************)
\* jmespath.search(condition, state): a field lookup gives the field's value,
\* None (falsy) when the field is absent; an unparsable expression raises
JMESPathCheck(cond, s) ==
    IF cond = "bad"
    THEN [outcome |-> "error", evaluated |-> TRUE]
    ELSE [outcome |-> IF cond \in DOMAIN s /\ Truthy(s[cond]) THEN "true" ELSE "false",
          evaluated |-> TRUE]

\* eval(condition, {}, state): an unparsable expression raises SyntaxError, a
\* name that is no key of state raises NameError
PyEval(cond, s) ==
    IF cond = "bad" \/ cond \notin DOMAIN s
    THEN [outcome |-> "error", evaluated |-> TRUE]
    ELSE [outcome |-> IF Truthy(s[cond]) THEN "true" ELSE "false", evaluated |-> TRUE]

\* EvalRouter.check without the test of self.enabled
EvalCheckUngated(en, cond, s) == PyEval(cond, s)

EvalCheck(en, cond, s) ==
    IF ~en
    THEN [outcome |-> "SafetyError", evaluated |-> FALSE]
    ELSE PyEval(cond, s)

\* router.check(cond, state) for the engine's router
Check(router, en, cond, s) ==
    IF router = "eval" THEN EvalCheck(en, cond, s) ELSE JMESPathCheck(cond, s)

(***************************************************************************)
(* _route: the routing function of one source step.  The result is the     *)
(* selected target, the log of the router.check calls made, in order, and  *)
(* the exception that leaves _route ("none": the except clause catches     *)
(* every exception of router.check).                                       *)
(***************************************************************************)
Target(tr) == IF tr.to = None THEN END ELSE tr.to

LogEntry(i, tr, c) ==
    [index |-> i, condition |-> tr.condition, outcome |-> c.outcome,
     evaluated |-> c.evaluated]

\* _route with "if cond is None: continue": an unconditional transition is
\* passed over instead of selected
RECURSIVE RouteFromSkipsUnconditional(_, _, _, _, _)
RouteFromSkipsUnconditional(conds, i, s, router, en) ==
    IF i > Len(conds)
    THEN [target |-> END, log |-> <<>>, exc |-> "none"]
    ELSE IF conds[i].condition = None
    THEN RouteFromSkipsUnconditional(conds, i + 1, s, router, en)
    ELSE LET c == Check(router, en, conds[i].condition, s)
             e == LogEntry(i, conds[i], c)
         IN  IF c.outcome = "true"
             THEN [target |-> Target(conds[i]), log |-> <<e>>, exc |-> "none"]
             ELSE LET rest == RouteFromSkipsUnconditional(conds, i + 1, s, router, en)
                  IN  [target |-> rest.target, log |-> <<e>> \o rest.log,
                       exc |-> rest.exc]

\* _route without the try/except around router.check: the first exception
\* of a check leaves _route
RECURSIVE RouteFromNoExcept(_, _, _, _, _)
RouteFromNoExcept(conds, i, s, router, en) ==
    IF i > Len(conds)
    THEN [target |-> END, log |-> <<>>, exc |-> "none"]
    ELSE IF conds[i].condition = None
    THEN [target |-> Target(conds[i]), log |-> <<>>, exc |-> "none"]
    ELSE LET c == Check(router, en, conds[i].condition, s)
             e == LogEntry(i, conds[i], c)
         IN  IF c.outcome = "true"
             THEN [target |-> Target(conds[i]), log |-> <<e>>, exc |-> "none"]
             ELSE IF c.outcome \in {"error", "SafetyError"}
             THEN [target |-> None, log |-> <<e>>, exc |-> c.outcome]
             ELSE LET rest == RouteFromNoExcept(conds, i + 1, s, router, en)
                  IN  [target |-> rest.target, log |-> <<e>> \o rest.log,
                       exc |-> rest.exc]

\* a _route that keeps an unconditional transition as the fallback: it is
\* taken only when no condition of the list holds
RECURSIVE RouteFromUnconditionalLast(_, _, _, _, _)
RouteFromUnconditionalLast(conds, i, s, router, en) ==
    IF i > Len(conds)
    THEN LET unc == {j \in 1..Len(conds) : conds[j].condition = None}
         IN  [target |-> IF unc = {} THEN END
                         ELSE Target(conds[CHOOSE j \in unc : \A k \in unc : j <= k]),
              log |-> <<>>, exc |-> "none"]
    ELSE IF conds[i].condition = None
    THEN RouteFromUnconditionalLast(conds, i + 1, s, router, en)
    ELSE LET c == Check(router, en, conds[i].condition, s)
             e == LogEntry(i, conds[i], c)
         IN  IF c.outcome = "true"
             THEN [target |-> Target(conds[i]), log |-> <<e>>, exc |-> "none"]
             ELSE LET rest == RouteFromUnconditionalLast(conds, i + 1, s, router, en)
                  IN  [target |-> rest.target, log |-> <<e>> \o rest.log,
                       exc |-> rest.exc]

RECURSIVE RouteFrom(_, _, _, _, _)
RouteFrom(conds, i, s, router, en) ==
    IF i > Len(conds)
    THEN [target |-> END, log |-> <<>>, exc |-> "none"]
    ELSE IF conds[i].condition = None
    THEN [target |-> Target(conds[i]), log |-> <<>>, exc |-> "none"]
    ELSE LET c == Check(router, en, conds[i].condition, s)
             e == LogEntry(i, conds[i], c)
         IN  IF c.outcome = "true"
             THEN [target |-> Target(conds[i]), log |-> <<e>>, exc |-> "none"]
             ELSE LET rest == RouteFrom(conds, i + 1, s, router, en)
                  IN  [target |-> rest.target, log |-> <<e>> \o rest.log,
                       exc |-> rest.exc]

Route(conds, s, router, en) == RouteFrom(conds, 1, s, router, en)

(***************************************************************************)
(* Retry policy of a step: retry_cfg.get(...) or default.                  *)
(***************************************************************************)
\* int(retry_cfg.get("max_attempts", 1) or 1)
MaxAttemptsOf(retry) ==
    IF ~retry.has_max \/ retry.max_attempts = 0 THEN 1 ELSE retry.max_attempts

\* float(retry_cfg.get("backoff", 0) or 0)
BackoffOf(retry) == retry.backoff

(***************************************************************************)
(* _build_graph.                                                           *)
(***************************************************************************)
SeqRange(q) == {q[i] : i \in 1..Len(q)}

NodeNames(fd) == {st.name : st \in SeqRange(fd.steps)}

StepCfg(fd, name) == CHOOSE st \in SeqRange(fd.steps) : st.name = name

\* by_src[src]: the transitions of one source, in declaration order
BySrc(fd, src) == SelectSeq(fd.transitions, LAMBDA tr : tr.from = src)

\* a direct edge for every source with a single transition, conditional or not
DirectEdgeForAnySingle(lst) == Len(lst) = 1

\* whether _build_graph emits a direct edge for the source
DirectEdge(lst) == Len(lst) = 1 /\ lst[1].condition = None

\* a compile() that validates direct edges and the entry point only, not the
\* targets of conditional edges
CompileIgnoresBranchTargets(fd) ==
    IF /\ \A tr \in SeqRange(fd.transitions) :
              /\ tr.from \in NodeNames(fd)
              /\ DirectEdge(BySrc(fd, tr.from)) =>
                    Target(tr) \in NodeNames(fd) \cup {END}
       /\ fd.initial_step \in NodeNames(fd)
    THEN "compiled"
    ELSE "ConfigError"

\* sg.compile(): every edge source, every edge or branch target and the entry
\* point must be a node; END is a valid target
Compile(fd) ==
    IF /\ \A tr \in SeqRange(fd.transitions) :
              /\ tr.from \in NodeNames(fd)
              /\ Target(tr) \in NodeNames(fd) \cup {END}
       /\ fd.initial_step \in NodeNames(fd)
    THEN "compiled"
    ELSE "ConfigError"

\* the node langgraph runs after src: the direct edge's target, or what the
\* conditional edge's router returns; a node without outgoing edge ends the run
NextNode(fd, src, s, router, en) ==
    LET lst == BySrc(fd, src)
    IN  IF Len(lst) = 0 THEN [target |-> END, log |-> <<>>, exc |-> "none"]
        ELSE IF DirectEdge(lst)
        THEN [target |-> Target(lst[1]), log |-> <<>>, exc |-> "none"]
        ELSE Route(lst, s, router, en)


(***************************************************************************)
(* Flow definitions.                                                       *)
(***************************************************************************)
Tr(f, t, c) == [from |-> f, to |-> t, condition |-> c]

\* a step without "retry" key, and the retry policies a step is configured with
NoRetry == [has_max |-> FALSE, max_attempts |-> 0, backoff |-> 0]
RetryCfgs ==
    {NoRetry} \cup
    {[has_max |-> TRUE, max_attempts |-> m, backoff |-> b] :
        m \in (-1)..MaxAttempts, b \in {0, 1}}

\* a step: "prompt" is the set of state fields its prompt template names in
\* braces; a step made by Step has a prompt without fields
Step(n, ty, r) == [name |-> n, type |-> ty, retry |-> r, prompt |-> {}]

\* two steps A and B of one type; A carries the retry policy
Flow(trans, init, ty, r) ==
    [steps |-> <<Step("A", ty, r), Step("B", ty, NoRetry)>>,
     transitions |-> trans,
     initial_step |-> init]

\* the transition lists of the engine specification
TransCatalogue ==
    { \* a single step ending the flow (tests/test_logging_and_retry.py)
      <<Tr("A", None, None)>>,
      \* the two-step loop: A -> B, B -> terminal when done, else B -> A
      <<Tr("A", "B", None), Tr("B", None, "done"), Tr("B", "A", None)>>,
      \* two conditions that can both match, no fallback
      <<Tr("A", "B", "a"), Tr("A", None, "done"), Tr("B", None, None)>>,
      \* a condition that cannot be evaluated, then one that can
      <<Tr("A", None, "bad"), Tr("A", "B", "done"), Tr("B", "A", "a")>>,
      \* a transition naming a step the flow does not declare
      <<Tr("A", Unknown, "a"), Tr("A", None, None)>> }

FlowDefs ==
    {Flow(t, "A", ty, r) : t \in TransCatalogue, ty \in StepTypes, r \in RetryCfgs}

\* sequences over S of length at most n
SeqsUpTo(S, n) == UNION {[1..k -> S] : k \in 0..n}

NoObs == [calls |-> 0, name |-> None, state |-> <<>>]

NoRoute ==
    [src |-> None, state |-> <<>>, flag |-> FALSE, target |-> None, log |-> <<>>,
     exc |-> "none"]
Routed(src, s, en, nxt) ==
    [src |-> src, state |-> s, flag |-> en, target |-> nxt.target, log |-> nxt.log,
     exc |-> nxt.exc]

(***************************************************************************)
(* ExecutorRegistry: a class-level mapping of step type to factory.        *)
(***************************************************************************)
\* the registrations made when hobnob.executors is imported
BuiltinExecutors ==
    [n \in {"llm", "user_input", "web_search", "api_call"} |->
        CASE n = "llm" -> "_llm_factory"
          [] n = "user_input" -> "_user_input_factory"
          [] n = "web_search" -> "_web_search_factory"
          [] n = "api_call" -> "_api_call_factory"]

\* a register that keeps an existing mapping: cls._executors.setdefault
RegistryRegisterKeepsFirst(ex, name, factory) ==
    [n \in (DOMAIN ex) \cup {name} |-> IF n \in DOMAIN ex THEN ex[n] ELSE factory]

\* cls._executors[name] = factory
RegistryRegister(ex, name, factory) ==
    [n \in (DOMAIN ex) \cup {name} |-> IF n = name THEN factory ELSE ex[n]]

\* cls._executors[name], KeyError("Unknown executor type: ...") when absent
RegistryGet(ex, name) == IF name \in DOMAIN ex THEN ex[name] ELSE "KeyError"

\* the registry of the engine specifications: the built-ins, and a factory
\* registered for the step type "partial"
EngineExecutors == RegistryRegister(BuiltinExecutors, "partial", "partial_factory")

(***************************************************************************)
(* The model and the state schema an engine is constructed with.           *)
(***************************************************************************)
\* a model whose answer is not determined by the step: any update
AnyLLM == [n \in StepNames |-> [det |-> FALSE, update |-> <<>>]]

\* state_schema=None
NoSchema == [given |-> FALSE, fields |-> {}]

\* _infer_state_schema: the fields named by the steps' prompt templates (the
\* keys of the steps' examples are not modelled)
InferStateSchema(fd) == UNION {st.prompt : st \in SeqRange(fd.steps)}

\* self._known_fields: the annotations of the schema given or inferred
KnownFields(schema, fd) ==
    IF schema.given THEN schema.fields ELSE InferStateSchema(fd)

\* a _validate_state that raises on unexpected fields
ValidateStateStrict(infer, known, s) ==
    LET extra == IF ~infer \/ known = {} THEN {} ELSE (DOMAIN s) \ known
    IN  [extra |-> extra, exc |-> IF extra # {} THEN "ValueError" ELSE "none"]

\* _validate_state: the unexpected fields it warns about (none: no warning) and
\* the exception it raises (never any)
ValidateState(infer, known, s) ==
    [extra |-> IF ~infer \/ known = {} THEN {} ELSE (DOMAIN s) \ known,
     exc |-> "none"]

(***************************************************************************)
(* The engine.                                                             *)
(***************************************************************************)
NoGet == [name |-> None, result |-> None, at |-> 0]

(***************************************************************************)
(* UserInputStep.  A line of text is a sequence of characters; a state     *)
(* value is a line of text.                                                *)
(***************************************************************************)
Yes == <<"y", "e", "s">>
No == <<"n", "o">>

\* the characters str.strip removes, among those that can be typed here
Whitespace == {" ", "\t"}

\* str.lower, character by character
LowerChar(c) ==
    CASE c = "Y" -> "y"
      [] c = "E" -> "e"
      [] c = "S" -> "s"
      [] c = "N" -> "n"
      [] c = "O" -> "o"
      [] OTHER -> c

Lower(line) == [i \in 1..Len(line) |-> LowerChar(line[i])]

RECURSIVE LStrip(_)
LStrip(line) ==
    IF line # <<>> /\ Head(line) \in Whitespace THEN LStrip(Tail(line)) ELSE line

RECURSIVE RStrip(_)
RStrip(line) ==
    IF line # <<>> /\ line[Len(line)] \in Whitespace
    THEN RStrip(SubSeq(line, 1, Len(line) - 1))
    ELSE line

Strip(line) == RStrip(LStrip(line))

\* an answer that is only trimmed
AnsNotLowered(line) == Strip(line)

\* ans = input(self.question).strip().lower()
Ans(line) == Lower(Strip(line))

\* {**state, "user_continue": ans}
UserInputReturn(s, ans) ==
    [k \in (DOMAIN s) \cup {"user_continue"} |->
        IF k = "user_continue" THEN ans ELSE s[k]]

NoUI == [pc |-> "idle", given |-> <<>>, state |-> <<>>, typed |-> <<>>,
         asked |-> 0, complaints |-> 0, out |-> <<>>]

\* the threads that call run
Runs == {1, 2}

NoThread ==
    [pc |-> "idle", initial |-> <<>>, warned |-> {}, cur |-> None, state |-> <<>>,
     attempt |-> 0, last_exc |-> NoExc, out |-> <<>>, tries |-> <<>>,
     visited |-> <<>>, result |-> <<>>, raised |-> NoExc, between |-> FALSE]

Defaults ==
    /\ ui = NoUI
    /\ threads = [t \in Runs |-> NoThread]
    /\ registrations = <<>>
    /\ got = NoGet
    /\ enabled = FALSE
    /\ graph = "none"
    /\ nodes = {}
    /\ entry = None
    /\ known_fields = {}
    /\ factories = <<>>
    /\ built_at = 0
    /\ initial_state = <<>>
    /\ runs = 0
    /\ warned = <<>>
    /\ made = 0
    /\ invoked = <<>>
    /\ used = <<>>
    /\ pc = "idle"
    /\ cur = None
    /\ state = <<>>
    /\ attempt = 0
    /\ last_exc = NoExc
    /\ excs = <<>>
    /\ update = <<>>
    /\ out = <<>>
    /\ calls = 0
    /\ sleeps = 0
    /\ slept_after = {}
    /\ visited = <<>>
    /\ obs = NoObs
    /\ raised = NoExc
    /\ result = <<>>
    /\ folded = <<>>
    /\ routed = NoRoute

\* the registry after import, a model that may answer anything, no
\* state_schema argument and infer_state at its default
DefaultArgs ==
    /\ executors = EngineExecutors
    /\ llm = AnyLLM
    /\ state_schema = NoSchema
    /\ infer_state = TRUE

Init ==
    /\ DefaultArgs
    /\ flow_def \in FlowDefs
    /\ on_step \in BOOLEAN
    /\ condition_router \in Routers
    /\ Defaults

\* FlowRunner.__init__: the graph is built once, at construction
\* sg.set_entry_point(self.flow_def["steps"][0]["name"])
EntryPointFirstStep(fd) == fd.steps[1].name

\* sg.set_entry_point(self.flow_def["initial_step"])
EntryPoint(fd) == fd.initial_step

\* what constructing the engine comes to: ValueError without a schema to use,
\* KeyError of ExecutorRegistry.get for a step of unregistered type, else the
\* outcome of sg.compile()
ConstructResult(ex, schema, infer, fd) ==
    IF ~schema.given /\ ~infer THEN "ValueError"
    ELSE IF \E st \in SeqRange(fd.steps) : RegistryGet(ex, st.type) = "KeyError"
    THEN "KeyError"
    ELSE Compile(fd)

Construct ==
    /\ graph = "none"
    /\ graph' = ConstructResult(executors, state_schema, infer_state, flow_def)
    /\ IF graph' = "compiled"
       THEN /\ nodes' = NodeNames(flow_def)
            /\ entry' = EntryPoint(flow_def)
            /\ known_fields' = KnownFields(state_schema, flow_def)
            /\ factories' = [n \in NodeNames(flow_def) |->
                                RegistryGet(executors, StepCfg(flow_def, n).type)]
       ELSE UNCHANGED <<nodes, entry, known_fields, factories>>
    /\ built_at' = Len(registrations)
    /\ UNCHANGED <<initial_state, runs, warned, made, invoked, used>>
    /\ UNCHANGED <<executors, registrations, got, llm, state_schema, infer_state, ui, threads>>
    /\ UNCHANGED <<flow_def, on_step, condition_router, enabled, pc, cur, state,
                   attempt, last_exc, excs, update, out, calls, sleeps,
                   slept_after, visited,
                   obs, raised, result, folded, routed>>

\* EvalRouter.enabled = b
SetEnabled(b) ==
    /\ enabled # b
    /\ enabled' = b
    /\ UNCHANGED <<nodes, entry, known_fields, factories, built_at>>
    /\ UNCHANGED <<initial_state, runs>>
    /\ UNCHANGED <<warned, made, invoked, used>>
    /\ UNCHANGED <<executors, registrations, got, llm, state_schema, infer_state, ui, threads>>
    /\ UNCHANGED <<flow_def, on_step, condition_router, graph, pc, cur, state,
                   attempt, last_exc, excs, update, out, calls, sleeps,
                   slept_after, visited,
                   obs, raised, result, folded, routed>>

\* a node whose attempt counter belongs to the step, not to the call of _fn:
\* it goes on from where the last execution of a step left it
EnterNodeKeepsAttempt(n) ==
    /\ cur' = n
    /\ update' = <<>>
    /\ out' = <<>>
    /\ pc' = "node"
    /\ attempt' = attempt
    /\ last_exc' = NoExc
    /\ excs' = <<>>
    /\ calls' = 0
    /\ sleeps' = 0
    /\ slept_after' = {}
    /\ obs' = NoObs
    /\ made' = 0
    /\ invoked' = <<>>
    /\ used' = <<>>

\* langgraph enters node n: _fn starts with attempt = 0, last_exc = None and
\* no output yet
EnterNode(n) ==
    /\ cur' = n
    /\ update' = <<>>
    /\ out' = <<>>
    /\ pc' = "node"
    /\ attempt' = 0
    /\ last_exc' = NoExc
    /\ excs' = <<>>
    /\ calls' = 0
    /\ sleeps' = 0
    /\ slept_after' = {}
    /\ obs' = NoObs
    /\ made' = 0
    /\ invoked' = <<>>
    /\ used' = <<>>

\* an invoke that starts from what the previous run left, overlaid by the input
GraphInputKeepsLast(prev, s) == Merge(prev, s)

\* self._graph.invoke(initial_state): the run's state starts as the input,
\* whatever state prev an earlier run of the graph ended with
GraphInput(prev, s) == s

\* run(initial_state): the graph is invoked at its entry point (the caller's
\* record of its calls, initial_state and runs, is left to the caller)
Run(s) ==
    LET v == ValidateState(infer_state, known_fields, s)
    IN  /\ graph = "compiled"
        /\ pc \in {"idle", "done", "raised"}
        /\ warned' = IF v.extra # {} THEN <<v.extra>> ELSE <<>>
        /\ state' = GraphInput(state, s)
        /\ folded' = s
        /\ visited' = <<>>
        /\ result' = <<>>
        /\ routed' = NoRoute
        /\ IF v.exc # "none"
           THEN /\ pc' = "raised"
                /\ raised' = [kind |-> v.exc, attempt |-> 0]
                /\ cur' = None
                /\ update' = <<>>
                /\ out' = <<>>
                /\ attempt' = 0
                /\ last_exc' = NoExc
                /\ excs' = <<>>
                /\ calls' = 0
                /\ sleeps' = 0
                /\ slept_after' = {}
                /\ obs' = NoObs
                /\ made' = 0
                /\ invoked' = <<>>
                /\ used' = <<>>
           ELSE /\ EnterNode(entry)
                /\ raised' = NoExc
        /\ UNCHANGED <<nodes, entry, known_fields, factories, built_at>>
        /\ UNCHANGED <<executors, registrations, got, llm, state_schema, infer_state, ui, threads>>
        /\ UNCHANGED <<flow_def, on_step, condition_router, enabled, graph>>

\* an LLMStep that returns its input state, the parsed updates dropped
ExecutorOutputDropsUpdate(ty, s, u) == s

\* what the step's executor returns for the update u it computed: LLMStep
\* returns {**state, **updates}, the registered executor the update alone
ExecutorOutput(ty, s, u) == IF ty = "llm" THEN Merge(s, u) ELSE u

\* an except branch that re-raises at once, whatever attempts remain
FailedNeverRetries(exc, n, max, backoff) ==
    /\ last_exc' = exc
    /\ excs' = Append(excs, exc)
    /\ pc' = "raised"
    /\ raised' = exc
    /\ UNCHANGED <<sleeps, slept_after>>
    /\ out' = out

\* an except branch that sleeps before the test of the remaining attempts, so
\* also after the final failed attempt
FailedSleepsFirst(exc, n, max, backoff) ==
    /\ last_exc' = exc
    /\ excs' = Append(excs, exc)
    /\ IF backoff > 0
       THEN sleeps' = sleeps + 1 /\ slept_after' = slept_after \cup {n}
       ELSE UNCHANGED <<sleeps, slept_after>>
    /\ IF n < max
       THEN pc' = "node" /\ raised' = raised
       ELSE pc' = "raised" /\ raised' = exc
    /\ out' = out

\* an except branch that retries other failures but re-raises at once what
\* LLMStep raises when it cannot render the prompt or parse the answer
FailedReraisesStepErrors(exc, n, max, backoff) ==
    /\ last_exc' = exc
    /\ excs' = Append(excs, exc)
    /\ IF n < max /\ exc.kind \notin {"KeyError", "ValueError"}
       THEN /\ pc' = "node"
            /\ raised' = raised
            /\ IF backoff > 0
               THEN sleeps' = sleeps + 1 /\ slept_after' = slept_after \cup {n}
               ELSE UNCHANGED <<sleeps, slept_after>>
       ELSE /\ pc' = "raised"
            /\ raised' = exc
            /\ UNCHANGED <<sleeps, slept_after>>
    /\ out' = out

\* the except branch of _fn at attempt n of max: retry (after the backoff
\* sleep) while attempts remain, else re-raise
Failed(exc, n, max, backoff) ==
    /\ last_exc' = exc
    /\ excs' = Append(excs, exc)
    /\ IF n < max
       THEN /\ pc' = "node"
            /\ raised' = raised
            /\ IF backoff > 0
               THEN sleeps' = sleeps + 1 /\ slept_after' = slept_after \cup {n}
               ELSE UNCHANGED <<sleeps, slept_after>>
       ELSE /\ pc' = "raised"
            /\ raised' = exc
            /\ UNCHANGED <<sleeps, slept_after>>
    /\ out' = out

\* a try branch whose return sits after the loop: the loop goes on to
\* max_attempts and the last output is returned
SucceededKeepsLooping(o, n, max) ==
    /\ out' = o
    /\ pc' = IF n < max THEN "node" ELSE "returned"
    /\ UNCHANGED <<last_exc, excs, sleeps, slept_after, raised>>

\* the try branch of _fn at attempt n of max, the observer (if any) having
\* returned: return out
Succeeded(o, n, max) ==
    /\ out' = o
    /\ pc' = "returned"
    /\ UNCHANGED <<last_exc, excs, sleeps, slept_after, raised>>

\* a _run_once that asks the registry for the factory of the step's type
FactoryLookedUpLate(captured, ex, ty) == RegistryGet(ex, ty)

\* the factory _run_once calls: the one _make_executor got from the registry
\* and the closure captured, whatever the registry ex maps the type ty to now
Factory(captured, ex, ty) == captured

\* a _run_once that makes the executor on the first attempt and keeps it
RunOnceCachedExecutor ==
    /\ made' = IF made = 0 THEN 1 ELSE made
    /\ invoked' = Append(invoked, 1)
    /\ used' = Append(used, Factory(factories[cur], executors,
                                    StepCfg(flow_def, cur).type))

\* _run_once: the factory makes an executor instance, and that one is invoked
RunOnce ==
    /\ made' = made + 1
    /\ invoked' = Append(invoked, made + 1)
    /\ used' = Append(used, Factory(factories[cur], executors,
                                    StepCfg(flow_def, cur).type))

\* LLMStep renders the prompt before it asks the model: format(**state) needs
\* every field the template names
RenderOk(st, s) == st.type = "llm" => st.prompt \subseteq DOMAIN s

\* one pass of _fn's while loop in which LLMStep cannot render its prompt
RenderFails ==
    LET st == StepCfg(flow_def, cur)
        max == MaxAttemptsOf(st.retry)
    IN  /\ pc = "node"
        /\ attempt < max
        /\ ~RenderOk(st, state)
        /\ attempt' = attempt + 1
        /\ calls' = calls + 1
        /\ RunOnce
        /\ obs' = obs
        /\ update' = update
        /\ Failed(RenderExc(attempt + 1), attempt + 1, max, BackoffOf(st.retry))
        /\ UNCHANGED <<nodes, entry, known_fields, factories, built_at>>
        /\ UNCHANGED <<initial_state, runs, warned>>
        /\ UNCHANGED <<executors, registrations, got, llm, state_schema, infer_state, ui, threads>>
        /\ UNCHANGED <<flow_def, on_step, condition_router, enabled, graph, cur,
                       state, visited, result, folded, routed>>

\* one pass of _fn's while loop in which LLMStep cannot parse the model's answer
ParseFails ==
    LET st == StepCfg(flow_def, cur)
        max == MaxAttemptsOf(st.retry)
    IN  /\ pc = "node"
        /\ attempt < max
        /\ st.type = "llm"
        /\ RenderOk(st, state)
        /\ ~llm[cur].det
        /\ attempt' = attempt + 1
        /\ calls' = calls + 1
        /\ RunOnce
        /\ obs' = obs
        /\ update' = update
        /\ Failed(ParseExc(attempt + 1), attempt + 1, max, BackoffOf(st.retry))
        /\ UNCHANGED <<nodes, entry, known_fields, factories, built_at>>
        /\ UNCHANGED <<initial_state, runs, warned>>
        /\ UNCHANGED <<executors, registrations, got, llm, state_schema, infer_state, ui, threads>>
        /\ UNCHANGED <<flow_def, on_step, condition_router, enabled, graph, cur,
                       state, visited, result, folded, routed>>

\* one pass of _fn's while loop with a failing executor
AttemptFails ==
    LET st == StepCfg(flow_def, cur)
        max == MaxAttemptsOf(st.retry)
    IN  /\ pc = "node"
        /\ attempt < max
        /\ RenderOk(st, state)
        /\ attempt' = attempt + 1
        /\ calls' = calls + 1
        /\ RunOnce
        /\ UNCHANGED <<nodes, entry, known_fields, factories, built_at>>
        /\ UNCHANGED <<initial_state, runs, warned>>
        /\ obs' = obs
        /\ update' = update
        /\ Failed(ExecutorExc(attempt + 1), attempt + 1, max, BackoffOf(st.retry))
        /\ UNCHANGED <<executors, registrations, got, llm, state_schema, infer_state, ui, threads>>
        /\ UNCHANGED <<flow_def, on_step, condition_router, enabled, graph, cur,
                       state, visited, result, folded, routed>>

\* one pass of _fn's while loop with an executor that returns: the observer is
\* called inside the try block, and hookRaises tells whether it raises
AttemptSucceeds(u, hookRaises) ==
    LET st == StepCfg(flow_def, cur)
        max == MaxAttemptsOf(st.retry)
        o == ExecutorOutput(st.type, state, u)
    IN  /\ pc = "node"
        /\ attempt < max
        /\ RenderOk(st, state)
        /\ (st.type = "llm" /\ llm[cur].det) => u = llm[cur].update
        /\ hookRaises => on_step
        /\ attempt' = attempt + 1
        /\ calls' = calls + 1
        /\ RunOnce
        /\ UNCHANGED <<nodes, entry, known_fields, factories, built_at>>
        /\ UNCHANGED <<initial_state, runs, warned>>
        /\ update' = u
        /\ obs' = IF on_step
                  THEN [calls |-> obs.calls + 1, name |-> cur, state |-> o]
                  ELSE obs
        /\ IF hookRaises
           THEN Failed(ObserverExc(attempt + 1), attempt + 1, max, BackoffOf(st.retry))
           ELSE Succeeded(o, attempt + 1, max)
        /\ UNCHANGED <<executors, registrations, got, llm, state_schema, infer_state, ui, threads>>
        /\ UNCHANGED <<flow_def, on_step, condition_router, enabled, graph, cur,
                       state, visited, result, folded, routed>>

\* _fn with max_attempts < 1: the loop is not entered and the fallback raises
NoAttempt ==
    LET st == StepCfg(flow_def, cur)
    IN  /\ pc = "node"
        /\ attempt >= MaxAttemptsOf(st.retry)
        /\ pc' = "raised"
        /\ raised' = IF last_exc # NoExc THEN last_exc ELSE UnknownStepFailure
        /\ UNCHANGED <<nodes, entry, known_fields, factories, built_at>>
        /\ UNCHANGED <<initial_state, runs, warned, made,
                       invoked, used>>
        /\ UNCHANGED <<executors, registrations, got, llm, state_schema, infer_state, ui, threads>>
        /\ UNCHANGED <<flow_def, on_step, condition_router, enabled, graph, cur,
                       state, attempt, last_exc, excs, update, out, calls, sleeps,
                       slept_after, visited, obs, result, folded, routed>>

\* langgraph after the node returned: write the returned mapping over the
\* state, then follow the node's edge or router to the next node or to END
Advance ==
    LET merged == Merge(state, out)
        nxt == NextNode(flow_def, cur, merged, condition_router, enabled)
    IN  /\ pc = "returned"
        /\ state' = merged
        /\ folded' = update @@ folded
        /\ visited' = Append(visited, cur)
        /\ routed' = Routed(cur, merged, enabled, nxt)
        /\ IF nxt.exc # "none"
           THEN /\ pc' = "raised"
                /\ raised' = [kind |-> nxt.exc, attempt |-> 0]
                /\ result' = result
                /\ UNCHANGED <<cur, attempt, last_exc, excs, calls, sleeps,
                               slept_after, obs, made, invoked, used, update, out>>
           ELSE IF nxt.target = END
           THEN /\ pc' = "done"
                /\ result' = merged
                /\ raised' = raised
                /\ UNCHANGED <<cur, attempt, last_exc, excs, calls, sleeps,
                               slept_after, obs, made, invoked, used, update, out>>
           ELSE /\ Len(visited) + 1 < MaxSteps
                /\ EnterNode(nxt.target)
                /\ result' = result
                /\ raised' = raised
        /\ UNCHANGED <<nodes, entry, known_fields, factories, built_at>>
        /\ UNCHANGED <<initial_state, runs, warned>>
        /\ UNCHANGED <<executors, registrations, got, llm, state_schema, infer_state, ui, threads>>
        /\ UNCHANGED <<flow_def, on_step, condition_router, enabled, graph>>

\* a run call of a caller that keeps no record of its calls
Invoke(s) == Run(s) /\ UNCHANGED <<initial_state, runs>>

\* a run call of a caller that records the argument and counts its calls
Call(s) ==
    /\ runs < MaxRuns
    /\ Run(s)
    /\ initial_state' = s
    /\ runs' = runs + 1

Next ==
    \/ Construct
    \/ \E b \in BOOLEAN : SetEnabled(b)
    \/ \E s \in States : Invoke(s)
    \/ AttemptFails
    \/ \E u \in States, h \in BOOLEAN : AttemptSucceeds(u, h)
    \/ NoAttempt
    \/ Advance

Spec == Init /\ [][Next]_vars


(***************************************************************************)
(* The routing specification: an engine over every transition list of      *)
(* source A up to MaxTrans, and langgraph following A's edge or router for *)
(* every state.                                                            *)
(***************************************************************************)
RouteTransitions == {Tr("A", t, c) : t \in StepNames \cup {None}, c \in Conds \cup {None}}

RouteFlowDefs ==
    {Flow(t, "A", "llm", NoRetry) : t \in SeqsUpTo(RouteTransitions, MaxTrans)}

RouteInit ==
    /\ DefaultArgs
    /\ flow_def \in RouteFlowDefs
    /\ on_step = FALSE
    /\ condition_router \in Routers
    /\ Defaults

\* langgraph leaves node A with state s
FollowEdge(s) ==
    /\ graph = "compiled"
    /\ state' = s
    /\ routed' = Routed("A", s, enabled,
                        NextNode(flow_def, "A", s, condition_router, enabled))
    /\ UNCHANGED <<nodes, entry, known_fields, factories, built_at>>
    /\ UNCHANGED <<initial_state, runs>>
    /\ UNCHANGED <<warned, made, invoked, used>>
    /\ UNCHANGED <<executors, registrations, got, llm, state_schema, infer_state, ui, threads>>
    /\ UNCHANGED <<flow_def, on_step, condition_router, enabled, graph, pc, cur,
                   attempt, last_exc, excs, update, out, calls, sleeps,
                   slept_after, visited,
                   obs, raised, result, folded>>

RouteNext ==
    \/ Construct
    \/ \E b \in BOOLEAN : SetEnabled(b)
    \/ \E s \in States : FollowEdge(s)

SpecRoute == RouteInit /\ [][RouteNext]_vars

(***************************************************************************)
(* The construction specification: engines over flow definitions whose     *)
(* initial_step and transitions may name a step that is not declared.      *)
(***************************************************************************)
CompileTransitions ==
    {Tr(f, t, c) : f \in StepNames \cup {Unknown},
                   t \in StepNames \cup {Unknown, None},
                   c \in {None, "done"}}

\* the step lists of the construction specification: both steps, or one
CompileSteps ==
    { <<Step("A", "llm", NoRetry), Step("B", "llm", NoRetry)>>,
      <<Step("A", "llm", NoRetry)>>,
      <<Step("B", "llm", NoRetry)>> }

CompileFlowDefs ==
    {[steps |-> st, transitions |-> t, initial_step |-> i] :
        st \in CompileSteps,
        t \in SeqsUpTo(CompileTransitions, MaxTrans),
        i \in StepNames \cup {Unknown}}

CompileInit ==
    /\ DefaultArgs
    /\ flow_def \in CompileFlowDefs
    /\ on_step = FALSE
    /\ condition_router = "jmespath"
    /\ Defaults

CompileNext ==
    \/ Construct
    \/ \E s \in States : Invoke(s)
    \/ AttemptFails
    \/ \E u \in States : AttemptSucceeds(u, FALSE)
    \/ Advance

SpecCompile == CompileInit /\ [][CompileNext]_vars


(***************************************************************************)
(* The deterministic specification: engines whose model answers each step  *)
(* with one fixed update and never fails, run several times by a caller    *)
(* that records its calls.                                                 *)
(***************************************************************************)
DetUpdates == {<<>>, [done |-> 1], [a |-> 1], [done |-> 0]}

DetLLMs == [StepNames -> {[det |-> TRUE, update |-> u] : u \in DetUpdates}]

DetFlowDefs == {Flow(t, "A", "llm", NoRetry) : t \in TransCatalogue}

DetInit ==
    /\ executors = EngineExecutors
    /\ llm \in DetLLMs
    /\ state_schema = NoSchema
    /\ infer_state = TRUE
    /\ flow_def \in DetFlowDefs
    /\ on_step \in BOOLEAN
    /\ condition_router \in Routers
    /\ Defaults

DetNext ==
    \/ Construct
    \/ \E s \in States : Call(s)
    \/ \E u \in States : AttemptSucceeds(u, FALSE)
    \/ Advance

SpecDet == DetInit /\ [][DetNext]_vars

(***************************************************************************)
(* The generative-step specification: engines of "llm" steps whose prompt  *)
(* templates name state fields, constructed with and without a state       *)
(* schema and schema inference, and run by a caller that records its calls.*)
(***************************************************************************)
\* step A with a prompt naming the fields p and the retry policy r, step B
\* with a prompt naming no field
PromptFlow(trans, p, r) ==
    [steps |-> <<[Step("A", "llm", r) EXCEPT !.prompt = p], Step("B", "llm", NoRetry)>>,
     transitions |-> trans,
     initial_step |-> "A"]

LLMFlowDefs ==
    {PromptFlow(t, p, r) :
        t \in {<<Tr("A", None, None)>>, <<Tr("A", "B", None), Tr("B", None, None)>>},
        p \in {{}, {"a"}},
        r \in {NoRetry} \cup
              {[has_max |-> TRUE, max_attempts |-> k, backoff |-> 0] : k \in 1..MaxAttempts}}

LLMInit ==
    /\ executors = EngineExecutors
    /\ llm = AnyLLM
    /\ state_schema \in {NoSchema, [given |-> TRUE, fields |-> {"done"}]}
    /\ infer_state \in BOOLEAN
    /\ flow_def \in LLMFlowDefs
    /\ on_step = FALSE
    /\ condition_router = "jmespath"
    /\ Defaults

LLMNext ==
    \/ Construct
    \/ \E s \in States : Call(s)
    \/ RenderFails
    \/ ParseFails
    \/ AttemptFails
    \/ \E u \in States : AttemptSucceeds(u, FALSE)
    \/ Advance

SpecLLM == LLMInit /\ [][LLMNext]_vars

(***************************************************************************)
(* The registry specification: register and get calls on ExecutorRegistry, *)
(* starting from the registrations made at import.                         *)
(***************************************************************************)
\* the names and factories of the calls: a built-in name, two other names
RegistryNames == {"llm", "foo", "bar"}
Factories == {"_llm_factory", "foo_factory", "other_factory"}

RegistryInit ==
    /\ executors = BuiltinExecutors
    /\ llm = AnyLLM
    /\ state_schema = NoSchema
    /\ infer_state = TRUE
    /\ flow_def = Flow(<<Tr("A", None, None)>>, "A", "llm", NoRetry)
    /\ on_step = FALSE
    /\ condition_router = "jmespath"
    /\ Defaults

\* ExecutorRegistry.register(name, factory)
Register(name, factory) ==
    /\ Len(registrations) < MaxRegs
    /\ executors' = RegistryRegister(executors, name, factory)
    /\ registrations' = Append(registrations, [name |-> name, factory |-> factory])
    /\ UNCHANGED <<got, llm, state_schema, infer_state, ui, threads>>
    /\ UNCHANGED <<flow_def, on_step, condition_router, enabled, graph, pc, cur, state,
                   attempt, last_exc, excs, update, out, calls, sleeps,
                   slept_after, visited, obs, raised, result, folded, routed>>
    /\ UNCHANGED <<nodes, entry, known_fields, factories, built_at>>
    /\ UNCHANGED <<initial_state, runs>>
    /\ UNCHANGED <<warned, made, invoked, used>>

\* ExecutorRegistry.get(name)
Get(name) ==
    /\ got' = [name |-> name, result |-> RegistryGet(executors, name),
               at |-> Len(registrations)]
    /\ UNCHANGED <<executors, registrations, llm, state_schema, infer_state, ui, threads>>
    /\ UNCHANGED <<flow_def, on_step, condition_router, enabled, graph, pc, cur, state,
                   attempt, last_exc, excs, update, out, calls, sleeps,
                   slept_after, visited, obs, raised, result, folded, routed>>
    /\ UNCHANGED <<nodes, entry, known_fields, factories, built_at>>
    /\ UNCHANGED <<initial_state, runs>>
    /\ UNCHANGED <<warned, made, invoked, used>>

RegistryNext ==
    \/ \E n \in RegistryNames, f \in Factories : Register(n, f)
    \/ \E n \in RegistryNames : Get(n)

SpecRegistry == RegistryInit /\ [][RegistryNext]_vars

(***************************************************************************)
(* The resolution specification: register calls before and after the       *)
(* construction of an engine whose steps are of a built-in type or of a    *)
(* type that only a register call provides, and runs of that engine.       *)
(***************************************************************************)
ResolveFlowDefs ==
    {Flow(t, "A", ty, NoRetry) :
        t \in {<<Tr("A", None, None)>>, <<Tr("A", "B", None), Tr("B", None, None)>>},
        ty \in StepTypes}

ResolveInit ==
    /\ executors = BuiltinExecutors
    /\ llm = AnyLLM
    /\ state_schema = NoSchema
    /\ infer_state = TRUE
    /\ flow_def \in ResolveFlowDefs
    /\ on_step = FALSE
    /\ condition_router = "jmespath"
    /\ Defaults

ResolveNext ==
    \/ \E n \in StepTypes, f \in {"partial_factory", "other_factory"} : Register(n, f)
    \/ Construct
    \/ \E s \in States : Invoke(s)
    \/ \E u \in States : AttemptSucceeds(u, FALSE)
    \/ Advance

SpecResolve == ResolveInit /\ [][ResolveNext]_vars

(***************************************************************************)
(* The human-input specification: calls of a UserInputStep on a state, and *)
(* the lines typed at its question.                                        *)
(***************************************************************************)
MaxTyped == 3

UIKeys == {"a", "user_continue"}
UIValues == {<<"0">>, Yes, No}
UIStates == UNION {[D -> UIValues] : D \in SUBSET UIKeys}

\* the lines typed: the two answers as they are, padded, in capitals, and
\* lines that are neither
Lines ==
    {Yes, No,
     <<"Y", "E", "S">>, <<"N", "o">>, <<" ", "y", "e", "s">>,
     <<"\t", "N", "O", " ", " ">>, <<"y", "e", "s", " ", "n", "o">>,
     <<"y", " ", "e", "s">>, <<"y">>, <<" ">>, <<>>}

UserInputInit ==
    /\ executors = BuiltinExecutors
    /\ llm = AnyLLM
    /\ state_schema = NoSchema
    /\ infer_state = TRUE
    /\ flow_def = Flow(<<Tr("A", None, None)>>, "A", "llm", NoRetry)
    /\ on_step = FALSE
    /\ condition_router = "jmespath"
    /\ Defaults

UIUnchanged ==
    UNCHANGED <<executors, registrations, got, llm, state_schema, infer_state,
                flow_def, on_step, condition_router, enabled, graph,
                nodes, entry, known_fields, factories, built_at, initial_state,
                runs, warned, made, invoked, used, pc, cur, state,
                attempt, last_exc, excs, update, out, calls, sleeps,
                slept_after, visited, obs, raised, result, folded, routed,
                threads>>

\* __call__(state) up to its first input(self.question)
UserInputCall(s) ==
    /\ ui.pc \in {"idle", "returned"}
    /\ ui' = [pc |-> "input", given |-> s, state |-> s, typed |-> <<>>,
              asked |-> 1, complaints |-> 0, out |-> <<>>]
    /\ UIUnchanged

\* a line is typed: the rest of the loop's iteration, up to the return or to
\* the next input(self.question)
UserInputTyped(line) ==
    /\ ui.pc = "input"
    /\ Len(ui.typed) < MaxTyped
    /\ LET ans == Ans(line)
       IN  IF ans \in {Yes, No}
           THEN ui' = [ui EXCEPT !.pc = "returned",
                                 !.typed = Append(@, line),
                                 !.out = UserInputReturn(ui.state, ans)]
           ELSE ui' = [ui EXCEPT !.typed = Append(@, line),
                                 !.complaints = @ + 1,
                                 !.asked = @ + 1]
    /\ UIUnchanged

UserInputNext ==
    \/ \E s \in UIStates : UserInputCall(s)
    \/ \E line \in Lines : UserInputTyped(line)

SpecUserInput == UserInputInit /\ [][UserInputNext]_vars

(***************************************************************************)
(* The concurrency specification: one engine with deterministic models,    *)
(* and a run call from each of two threads, their steps interleaved.  A    *)
(* thread's record holds what is local to its call: the state its invoke   *)
(* carries, and attempt, last_exc and out of the call of _fn in progress;  *)
(* tries counts its calls of _run_once per step executed, and between      *)
(* tells that it made one while another thread was between two attempts.   *)
(***************************************************************************)
ConcFlowDefs ==
    {PromptFlow(t, p, r) :
        t \in {<<Tr("A", None, None)>>,
               <<Tr("A", "B", None), Tr("B", None, None)>>,
               <<Tr("A", "B", "done"), Tr("A", None, None), Tr("B", None, None)>>},
        p \in {{}, {"a"}},
        r \in {NoRetry} \cup
              {[has_max |-> TRUE, max_attempts |-> k, backoff |-> 0] :
                  k \in {-1} \cup (1..MaxAttempts)}}

ConcInit ==
    /\ executors = BuiltinExecutors
    /\ llm \in DetLLMs
    /\ state_schema = NoSchema
    /\ infer_state = TRUE
    /\ flow_def \in ConcFlowDefs
    /\ on_step = FALSE
    /\ condition_router = "jmespath"
    /\ Defaults

ThreadsUnchanged ==
    UNCHANGED <<executors, registrations, got, llm, state_schema, infer_state,
                flow_def, on_step, condition_router, enabled, graph,
                nodes, entry, known_fields, factories, built_at, initial_state,
                runs, warned, made, invoked, used, pc, cur, state,
                attempt, last_exc, excs, update, out, calls, sleeps,
                slept_after, visited, obs, raised, result, folded, routed, ui>>

\* an attempt counter that belongs to the engine: every call of _fn uses the
\* one of the first thread
LocalsOfEngine(t) == 1

\* where the locals of the call of _fn made in thread t live: in the frame of
\* that call
Locals(t) == t

\* thread t takes a step: its record becomes rec and the attempt of its call
\* of _fn becomes n
ThreadStep(t, rec, n) ==
    threads' = [x \in Runs |->
                   LET r == IF x = t THEN rec ELSE threads[x]
                   IN  IF x = Locals(t) THEN [r EXCEPT !.attempt = n] ELSE r]

\* langgraph enters node n in the thread of rec: _fn starts with
\* last_exc = None and no output yet
ThreadEnter(rec, n) ==
    [rec EXCEPT !.cur = n, !.pc = "node", !.out = <<>>, !.last_exc = NoExc,
                !.tries = Append(@, 0)]

\* run(initial_state) in thread t
ThreadRun(t, s) ==
    LET r == threads[t]
        v == ValidateState(infer_state, known_fields, s)
        rec == [r EXCEPT !.initial = s, !.warned = v.extra,
                         !.state = GraphInput(r.state, s)]
    IN  /\ graph = "compiled"
        /\ r.pc = "idle"
        /\ IF v.exc # "none"
           THEN ThreadStep(t, [rec EXCEPT !.pc = "raised",
                                          !.raised = [kind |-> v.exc, attempt |-> 0]],
                           threads[Locals(t)].attempt)
           ELSE ThreadStep(t, ThreadEnter(rec, entry), 0)
        /\ ThreadsUnchanged

\* one pass of _fn's while loop in thread t
ThreadAttempt(t) ==
    LET r == threads[t]
        st == StepCfg(flow_def, r.cur)
        max == MaxAttemptsOf(st.retry)
        n == threads[Locals(t)].attempt + 1
        tried == [r EXCEPT !.tries[Len(r.tries)] = @ + 1,
                           !.between = @ \/ \E x \in Runs \ {t} :
                                               /\ threads[x].pc = "node"
                                               /\ threads[x].attempt >= 1]
    IN  /\ r.pc = "node"
        /\ n - 1 < max
        /\ IF RenderOk(st, r.state)
           THEN ThreadStep(t, [tried EXCEPT
                                  !.out = ExecutorOutput(st.type, r.state, llm[r.cur].update),
                                  !.pc = "returned"], n)
           ELSE ThreadStep(t, [tried EXCEPT
                                  !.last_exc = RenderExc(n),
                                  !.pc = IF n < max THEN "node" ELSE "raised",
                                  !.raised = IF n < max THEN @ ELSE RenderExc(n)], n)
        /\ ThreadsUnchanged

\* _fn in thread t with its loop not entered, or left: the fallback raises
ThreadNoAttempt(t) ==
    LET r == threads[t]
        st == StepCfg(flow_def, r.cur)
    IN  /\ r.pc = "node"
        /\ threads[Locals(t)].attempt >= MaxAttemptsOf(st.retry)
        /\ ThreadStep(t, [r EXCEPT !.pc = "raised",
                                   !.raised = IF r.last_exc # NoExc THEN r.last_exc
                                              ELSE UnknownStepFailure],
                      threads[Locals(t)].attempt)
        /\ ThreadsUnchanged

\* langgraph in thread t after the node returned
ThreadAdvance(t) ==
    LET r == threads[t]
        merged == Merge(r.state, r.out)
        nxt == NextNode(flow_def, r.cur, merged, condition_router, enabled)
        rec == [r EXCEPT !.state = merged, !.visited = Append(@, r.cur)]
    IN  /\ r.pc = "returned"
        /\ IF nxt.exc # "none"
           THEN ThreadStep(t, [rec EXCEPT !.pc = "raised",
                                          !.raised = [kind |-> nxt.exc, attempt |-> 0]],
                           threads[Locals(t)].attempt)
           ELSE IF nxt.target = END
           THEN ThreadStep(t, [rec EXCEPT !.pc = "done", !.result = merged],
                           threads[Locals(t)].attempt)
           ELSE /\ Len(r.visited) + 1 < MaxSteps
                /\ ThreadStep(t, ThreadEnter(rec, nxt.target), 0)
        /\ ThreadsUnchanged

ConcNext ==
    \/ Construct
    \/ \E t \in Runs, s \in States : ThreadRun(t, s)
    \/ \E t \in Runs : ThreadAttempt(t)
    \/ \E t \in Runs : ThreadNoAttempt(t)
    \/ \E t \in Runs : ThreadAdvance(t)

SpecConc == ConcInit /\ [][ConcNext]_vars

(***************************************************************************)
(* Properties.                                                             *)
(***************************************************************************)
MinOf(S) == CHOOSE x \in S : \A y \in S : x <= y

\* the transition list the last routing ran over, and its check log
RoutedList == BySrc(flow_def, routed.src)
RoutedChecks == {routed.log[k] : k \in 1..Len(routed.log)}

\* the transitions of the last routing that are unconditional or whose check
\* returned true
RoutedMatches ==
    {i \in 1..Len(RoutedList) :
        \/ RoutedList[i].condition = None
        \/ \E e \in RoutedChecks : e.index = i /\ e.outcome = "true"}

\* C1: routing walks the source's transitions in declaration order and selects
\* the target of the first one that is unconditional or whose condition is
\* true, END when there is none: the conditions checked are exactly those of
\* the conditional transitions up to the selected one, each checked once, in
\* increasing order, each with the router's verdict on the state routed.
C1_FirstMatchInDeclarationOrder ==
    routed.src # None =>
        LET last == IF RoutedMatches = {} THEN Len(RoutedList) ELSE MinOf(RoutedMatches)
        IN  /\ routed.target =
                 IF RoutedMatches = {} THEN END ELSE Target(RoutedList[MinOf(RoutedMatches)])
            /\ {e.index : e \in RoutedChecks} =
                 {i \in 1..last : RoutedList[i].condition # None}
            /\ \A k \in 1..(Len(routed.log) - 1) :
                 routed.log[k].index < routed.log[k + 1].index
            /\ \A e \in RoutedChecks :
                 /\ e.condition = RoutedList[e.index].condition
                 /\ e.outcome = Check(condition_router, routed.flag, e.condition,
                                      routed.state).outcome

\* two conditional transitions to different targets whose conditions both hold
\* in the state routed: the first one's target was selected and the second
\* condition was not checked
C1_Witness_BothMatch ==
    /\ routed.src # None
    /\ Len(RoutedList) = 2
    /\ RoutedList[1].condition = "a"
    /\ RoutedList[2].condition = "done"
    /\ Target(RoutedList[1]) # Target(RoutedList[2])
    /\ Check(condition_router, routed.flag, "a", routed.state).outcome = "true"
    /\ Check(condition_router, routed.flag, "done", routed.state).outcome = "true"
    /\ routed.target = Target(RoutedList[1])
    /\ Len(routed.log) = 1


\* the transitions after index i that are unconditional or whose condition the
\* router finds true on the state routed
LaterMatches(i) ==
    {j \in (i + 1)..Len(RoutedList) :
        \/ RoutedList[j].condition = None
        \/ Check(condition_router, routed.flag, RoutedList[j].condition,
                 routed.state).outcome = "true"}

\* C7: a condition whose evaluation raises counts as not matching: routing goes
\* on to the transitions declared after it and selects the first of them that
\* matches, the error never leaves the routing or aborts the run, and with no
\* later match the run ends normally, returning the state routed.
C7_ConditionErrorIsNoMatch ==
    /\ routed.exc = "none"
    /\ raised.kind # "error"
    /\ \A e \in RoutedChecks :
          e.outcome = "error" =>
              /\ routed.target =
                    IF LaterMatches(e.index) = {} THEN END
                    ELSE Target(RoutedList[MinOf(LaterMatches(e.index))])
              /\ routed.target = END => pc = "done" /\ result = routed.state

\* a run in which a condition raised, a later transition matched and the next
\* step was entered
C7_Witness_ErrorThenMatch ==
    /\ pc = "node"
    /\ \E e, f \in RoutedChecks :
          /\ e.outcome = "error"
          /\ f.index > e.index
          /\ f.outcome = "true"
          /\ routed.target = Target(RoutedList[f.index])
          /\ cur = routed.target

\* C8: the unsafe router is disabled until EvalRouter.enabled is set, every
\* check made while the flag is false raises the safety error and does not
\* evaluate the expression, and an expression is evaluated only by a check that
\* found the flag true.
C8_UnsafeRouterGate ==
    /\ ~enabled
    /\ [](condition_router = "eval" =>
            \A e \in RoutedChecks :
                /\ ~routed.flag => e.outcome = "SafetyError" /\ ~e.evaluated
                /\ e.evaluated => routed.flag /\ e.outcome # "SafetyError")

\* a routing of the unsafe router made after the flag was enabled and disabled
\* again: both its checks raised the safety error and evaluated nothing, while
\* the flag has since been enabled
C8_Witness_DisabledChecks ==
    /\ condition_router = "eval"
    /\ ~routed.flag
    /\ enabled
    /\ Len(routed.log) = 2
    /\ \A e \in RoutedChecks : e.outcome = "SafetyError" /\ ~e.evaluated

\* C9: a safety error raised by a check during a run aborts the run and is
\* raised to the caller of run.
C9_SafetyErrorAbortsRun ==
    \A e \in RoutedChecks :
        e.outcome = "SafetyError" => pc = "raised" /\ raised.kind = "SafetyError"


\* the retry policy of the step being executed
CurMax == MaxAttemptsOf(StepCfg(flow_def, cur).retry)
CurBackoff == BackoffOf(StepCfg(flow_def, cur).retry)

\* every exception caught in the current step execution came from the executor
OnlyExecutorFailures == \A i \in 1..Len(excs) : excs[i].kind = "executor"

\* the run can take a step of its flow
StepEnabled ==
    \/ ENABLED AttemptFails
    \/ ENABLED (\E u \in States, h \in BOOLEAN : AttemptSucceeds(u, h))
    \/ ENABLED NoAttempt
    \/ ENABLED Advance

\* C2: when the executor of a step with max_attempts = N >= 1 fails in every
\* attempt, it was invoked exactly N times, run raises the exception of the
\* N-th attempt, and the run takes no further step.
C2_ExhaustedRetriesPropagate ==
    (pc = "raised" /\ CurMax >= 1 /\ OnlyExecutorFailures) =>
        /\ calls = CurMax
        /\ Len(excs) = CurMax
        /\ raised = ExecutorExc(CurMax)
        /\ raised = excs[Len(excs)]
        /\ ~StepEnabled

\* a step with max_attempts = MaxAttempts whose executor failed every time
C2_Witness_AllAttemptsFailed ==
    /\ pc = "raised"
    /\ CurMax = MaxAttempts
    /\ OnlyExecutorFailures
    /\ calls = MaxAttempts
    /\ raised = ExecutorExc(MaxAttempts)

C4_SleepsBetweenAttempts ==
    (cur \in StepNames /\ CurBackoff > 0) =>
        /\ sleeps = Cardinality(slept_after)
        /\ \A n \in slept_after : n >= 1 /\ n <= Len(excs) /\ n < CurMax
        /\ pc = "node" => slept_after = 1..attempt
        /\ (pc \in {"returned", "raised", "done"} /\ attempt >= 1) =>
              /\ slept_after = 1..(attempt - 1)
              /\ sleeps = attempt - 1

\* two failed attempts with backoff > 0: one sleep, after the first
C4_Witness_OneSleepTwoAttempts ==
    /\ pc = "raised"
    /\ CurBackoff > 0
    /\ attempt = 2
    /\ sleeps = 1
    /\ slept_after = {1}

\* C5: a step replaces the state by its union with the step's update, the
\* update's value winning on a common key: the keys are those of either, a key
\* of the update has the update's value, any other key keeps its value; and
\* run returns the initial state with the updates of the executed steps
\* applied in order.
C5_StateMerge ==
    /\ [][(pc = "returned" /\ pc' # "returned") =>
            /\ DOMAIN state' = (DOMAIN state) \cup (DOMAIN update)
            /\ \A k \in DOMAIN update : state'[k] = update[k]
            /\ \A k \in (DOMAIN state) \ (DOMAIN update) : state'[k] = state[k]]_vars
    /\ [](pc = "done" => result = folded)

\* a two-step run whose second update overwrote a key that the first one had
\* set, another key of the initial state persisting
C5_Witness_OverwriteAndPersist ==
    /\ pc = "done"
    /\ Len(visited) = 2
    /\ DOMAIN result = Keys
    /\ "done" \in DOMAIN update
    /\ "a" \notin DOMAIN update
    /\ result["done"] = update["done"]
    /\ \E s \in States : DOMAIN s = Keys /\ s["done"] # update["done"]
                         /\ folded = update @@ s

\* a reference of the flow definition to a step it does not declare
HasUnknownReference(fd) ==
    LET declared == {fd.steps[i].name : i \in 1..Len(fd.steps)}
    IN  \/ fd.initial_step \notin declared
        \/ \E i \in 1..Len(fd.transitions) :
              \/ fd.transitions[i].from \notin declared
              \/ /\ fd.transitions[i].to # None
                 /\ fd.transitions[i].to \notin declared

\* C6: constructing the engine fails with the configuration error whenever
\* initial_step or a transition's from or to names an undeclared step, a to of
\* None (the terminal marker) being no such reference; and on an engine whose
\* construction failed no step is ever entered or executed.
C6_UnknownStepRejected ==
    /\ (graph # "none" /\ HasUnknownReference(flow_def)) => graph = "ConfigError"
    /\ (graph # "none" /\ ~HasUnknownReference(flow_def)) => graph = "compiled"
    /\ graph # "compiled" => pc = "idle" /\ cur = None /\ calls = 0 /\ visited = <<>>

\* a rejected flow definition whose only undeclared name is the to of a
\* conditional transition, beside a transition to the terminal marker
C6_Witness_UnknownTarget ==
    /\ graph = "ConfigError"
    /\ flow_def.initial_step \in NodeNames(flow_def)
    /\ Len(flow_def.transitions) = 2
    /\ \A tr \in SeqRange(flow_def.transitions) : tr.from \in NodeNames(flow_def)
    /\ flow_def.transitions[1].to = None
    /\ flow_def.transitions[2].to = Unknown
    /\ flow_def.transitions[2].condition # None

\* C10: when a step's node has returned, the observer has been called for it
\* with the step's name and the merged state, the previous state with the
\* step's update applied.
C10_ObserverSeesMergedState ==
    (pc = "returned" /\ on_step) =>
        /\ obs.calls >= 1
        /\ obs.name = cur
        /\ obs.state = Merge(state, out)

\* C11: an exception raised by the observer hook aborts the run under every
\* retry policy: it is the exception run raises, the executor of the step is
\* not invoked again after it, and no later step is executed.
C11_ObserverFailureAborts ==
    \A i \in 1..Len(excs) :
        excs[i].kind = "observer" =>
            /\ pc = "raised"
            /\ raised = excs[i]
            /\ calls = i

\* the register calls for name among the first k, by position
RegisteredAt(name, k) == {i \in 1..k : registrations[i].name = name}

\* the factory that get(name) owes after the first k register calls: that of
\* the latest register of the name, else the one registered at import, else
\* the unknown-executor-type error
Owed(name, k) ==
    IF RegisteredAt(name, k) # {}
    THEN registrations[CHOOSE i \in RegisteredAt(name, k) :
                          \A j \in RegisteredAt(name, k) : j <= i].factory
    ELSE IF name \in DOMAIN BuiltinExecutors THEN BuiltinExecutors[name]
    ELSE "KeyError"

\* C12: after any sequence of register calls the registry maps every name to
\* the factory of the latest register call for that name (to the built-in one
\* when only the import registered it), whatever was registered under other
\* names, and maps no name that was never registered; every get returned the
\* factory last registered under its name when it was called, or failed with
\* the unknown-executor-type error.
C12_LastRegistrationWins ==
    /\ \A n \in RegistryNames \cup DOMAIN BuiltinExecutors :
          RegistryGet(executors, n) = Owed(n, Len(registrations))
    /\ DOMAIN executors \subseteq RegistryNames \cup DOMAIN BuiltinExecutors
    /\ got.name # None => got.result = Owed(got.name, got.at)

\* "foo" registered twice with different factories and "llm" overridden never:
\* get("foo") gave the second factory, and "bar" is unknown
C12_Witness_OverrideThenGet ==
    /\ Len(registrations) = 2
    /\ registrations[1].name = "foo"
    /\ registrations[2].name = "foo"
    /\ registrations[1].factory # registrations[2].factory
    /\ got = [name |-> "foo", result |-> registrations[2].factory, at |-> 2]
    /\ RegistryGet(executors, "bar") = "KeyError"
    /\ RegistryGet(executors, "llm") = "_llm_factory"

\* the two-step flow A -> B, B -> terminal when done, else B -> A, on the default
\* router, with a model that sets done on A and changes nothing on B, run
\* with {done: false}
C13Scenario ==
    /\ flow_def.transitions =
          <<Tr("A", "B", None), Tr("B", None, "done"), Tr("B", "A", None)>>
    /\ flow_def.initial_step = "A"
    /\ condition_router = "jmespath"
    /\ llm["A"].update = [done |-> 1]
    /\ llm["B"].update = <<>>
    /\ runs >= 1
    /\ initial_state = [done |-> 0]

\* C13: in that scenario the run executes A, then B, and then ends: the steps
\* executed so far are always a prefix of A, B, the step being executed is the
\* next of that sequence, the run never raises and can always go on until it
\* has ended, which it has once B was executed, returning {done: true}.
C13_TwoStepScenario ==
    C13Scenario =>
        /\ pc \in {"node", "returned", "done"}
        /\ Len(visited) <= 2
        /\ \A i \in 1..Len(visited) : visited[i] = <<"A", "B">>[i]
        /\ pc \in {"node", "returned"} =>
              /\ Len(visited) < 2
              /\ cur = <<"A", "B">>[Len(visited) + 1]
              /\ \/ ENABLED (\E u \in States : AttemptSucceeds(u, FALSE))
                 \/ ENABLED Advance
        /\ pc = "done" =>
              /\ visited = <<"A", "B">>
              /\ result = [done |-> 1]

\* the scenario's run has ended
C13_Witness_RanAThenB ==
    /\ C13Scenario
    /\ pc = "done"
    /\ visited = <<"A", "B">>
    /\ result = [done |-> 1]

\* what a run of the engine on state s gives when nothing preceded it: the
\* steps executed from node n on, after those of seen, and the state returned;
\* ended is false when the run is longer than the steps left to follow
RECURSIVE FreshRunFrom(_, _, _, _)
FreshRunFrom(n, s, seen, left) ==
    LET merged == Merge(s, ExecutorOutput(StepCfg(flow_def, n).type, s, llm[n].update))
        nxt == NextNode(flow_def, n, merged, condition_router, enabled)
    IN  IF nxt.target = END
        THEN [visited |-> Append(seen, n), result |-> merged, ended |-> TRUE]
        ELSE IF left = 1
        THEN [visited |-> Append(seen, n), result |-> merged, ended |-> FALSE]
        ELSE FreshRunFrom(nxt.target, merged, Append(seen, n), left - 1)

FreshRun == FreshRunFrom(flow_def.initial_step, initial_state, <<>>, MaxSteps)

\* C20: the graph compiled at construction is the one every run uses, and a
\* run of an engine with deterministic executors depends on its own initial
\* state only: however many runs preceded it, the steps it has executed are
\* those a first run on that state executes, and what it returns is what a
\* first run on that state returns.
C20_RunsAreIndependent ==
    runs >= 1 =>
        /\ graph = "compiled"
        /\ nodes = NodeNames(flow_def)
        /\ entry = flow_def.initial_step
        /\ Len(visited) <= Len(FreshRun.visited)
        /\ \A i \in 1..Len(visited) : visited[i] = FreshRun.visited[i]
        /\ pc = "node" => cur = FreshRun.visited[Len(visited) + 1]
        /\ pc = "done" =>
              /\ FreshRun.ended
              /\ visited = FreshRun.visited
              /\ result = FreshRun.result

\* the second run on one engine has ended after two steps, on a state that is
\* not the one the engine's model leaves behind
C20_Witness_SecondRunEnded ==
    /\ runs = 2
    /\ pc = "done"
    /\ Len(visited) = 2
    /\ DOMAIN initial_state = Keys
    /\ result # initial_state

\* C14: the graph of a flow definition that compiles has one node per step of
\* the definition, under the step's name, and no other; its entry point is
\* initial_step, and every run starts there: initial_step is the step a run
\* executes first, and only nodes of the graph are executed.
C14_NodesAndEntryPoint ==
    /\ graph = "compiled" =>
          /\ nodes = {flow_def.steps[i].name : i \in 1..Len(flow_def.steps)}
          /\ Cardinality(nodes) = Len(flow_def.steps)
          /\ entry = flow_def.initial_step
          /\ entry \in nodes
          /\ (pc # "idle" /\ visited = <<>>) => cur = flow_def.initial_step
          /\ Len(visited) >= 1 => visited[1] = flow_def.initial_step
          /\ \A i \in 1..Len(visited) : visited[i] \in nodes
    /\ graph # "compiled" => nodes = {} /\ entry = None

\* a compiled flow of two steps whose initial_step is the second one declared,
\* and a run of it that has executed that step first
C14_Witness_SecondStepIsEntry ==
    /\ graph = "compiled"
    /\ Len(flow_def.steps) = 2
    /\ flow_def.initial_step = flow_def.steps[2].name
    /\ nodes = {"A", "B"}
    /\ Len(visited) >= 1
    /\ visited[1] = flow_def.steps[2].name

\* C15: for a source that has transitions, the node the compiled graph goes to
\* is the one the routing function selects over the source's transition list
\* on the same state, and the routing function raises nothing: so the direct
\* edge of a source with one unconditional transition goes where routing that
\* source would go, and a run of the graph is a run of the all-router graph.
C15_DirectEdgeIsRouting ==
    (routed.src # None /\ Len(RoutedList) >= 1) =>
        LET r == Route(RoutedList, routed.state, condition_router, routed.flag)
        IN  /\ routed.target = r.target
            /\ r.exc = "none"
            /\ routed.exc = "none"
            /\ (Len(RoutedList) = 1 /\ RoutedList[1].condition = None) =>
                  /\ routed.target = Target(RoutedList[1])
                  /\ routed.log = <<>>
                  /\ r.log = <<>>

\* a source with exactly one transition, unconditional and to a step, followed
\* on a state in which a condition on that state would not hold
C15_Witness_SingleUnconditional ==
    /\ routed.src # None
    /\ Len(RoutedList) = 1
    /\ RoutedList[1].condition = None
    /\ RoutedList[1].to = "B"
    /\ routed.target = "B"
    /\ routed.state = [a |-> 0, done |-> 0]

\* the unconditional transitions of the list last routed, by position
RoutedUnconditional == {i \in 1..Len(RoutedList) : RoutedList[i].condition = None}

\* C19: nothing declared after an unconditional transition is ever used: when
\* the list routed has an unconditional transition, the first at position u,
\* the target selected is that of a transition at a position up to u, it is
\* the target of u unless a condition before u held, and no condition after u
\* was checked.
C19_UnconditionalShadowsLater ==
    (routed.src # None /\ RoutedUnconditional # {}) =>
        LET u == MinOf(RoutedUnconditional)
            held == {e.index : e \in {x \in RoutedChecks : x.outcome = "true"}}
        IN  /\ \A e \in RoutedChecks : e.index < u
            /\ \E i \in 1..u : routed.target = Target(RoutedList[i])
            /\ held = {} => routed.target = Target(RoutedList[u])
            /\ held # {} => /\ MinOf(held) < u
                            /\ routed.target = Target(RoutedList[MinOf(held)])

\* an unconditional transition followed by a conditional one whose condition
\* holds in the state routed: the unconditional one was taken, nothing checked
C19_Witness_LaterConditionHolds ==
    /\ routed.src # None
    /\ Len(RoutedList) = 2
    /\ RoutedList[1].condition = None
    /\ RoutedList[2].condition = "done"
    /\ Target(RoutedList[1]) # Target(RoutedList[2])
    /\ Check(condition_router, routed.flag, "done", routed.state).outcome = "true"
    /\ routed.target = Target(RoutedList[1])
    /\ routed.log = <<>>

\* the fields of the run's initial state that are outside the known-field set
\* of an engine that validates
UnexpectedFields ==
    IF infer_state /\ known_fields # {} THEN (DOMAIN initial_state) \ known_fields ELSE {}

\* C16: validation only warns: a run warns once, about the unexpected fields
\* of its initial state, exactly when there are any, and otherwise goes as
\* without validation: it starts at the entry point on the whole initial
\* state, unexpected fields included, whatever it raises was raised by an
\* attempt of a step, and what it returns is the initial state with the
\* steps' updates applied.
C16_ValidationOnlyWarns ==
    runs >= 1 =>
        /\ warned = IF UnexpectedFields # {} THEN <<UnexpectedFields>> ELSE <<>>
        /\ (pc = "node" /\ visited = <<>> /\ attempt = 0) =>
              /\ cur = flow_def.initial_step
              /\ state = initial_state
        /\ pc = "raised" =>
              /\ Len(excs) >= 1
              /\ raised = excs[Len(excs)]
        /\ pc = "done" =>
              /\ result = folded
              /\ DOMAIN initial_state \subseteq DOMAIN result

\* a run that warned about a field of its initial state, executed both steps
\* and returned a state that still has the field
C16_Witness_WarnedAndReturned ==
    /\ runs >= 1
    /\ warned # <<>>
    /\ "done" \in warned[1]
    /\ pc = "done"
    /\ visited = <<"A", "B">>
    /\ "done" \in DOMAIN result

\* C17: each attempt invokes an executor instance that the factory made in
\* that attempt: as many instances were made as attempts, the i-th attempt
\* invoked the i-th instance, and no instance was invoked twice.
C17_FreshExecutorPerAttempt ==
    /\ made = attempt
    /\ Len(invoked) = attempt
    /\ calls = attempt
    /\ \A i \in 1..Len(invoked) : invoked[i] = i
    /\ \A i, j \in 1..Len(invoked) : i # j => invoked[i] # invoked[j]

\* a step whose first attempt failed and whose second returned, each on an
\* instance of its own
C17_Witness_TwoAttemptsTwoInstances ==
    /\ pc = "returned"
    /\ excs = <<ExecutorExc(1)>>
    /\ attempt = 2
    /\ invoked = <<1, 2>>

\* C18: a failure to render the prompt or to parse the model's answer is a step
\* failure like any other: at an attempt before the last it is not raised and
\* a further attempt is open or was made; at the last attempt it is what the
\* run raises, after max_attempts invocations; and a run raises such a
\* failure then only.
C18_RenderAndParseFailuresRetried ==
    /\ \A i \in 1..Len(excs) :
          excs[i].kind \in {"KeyError", "ValueError"} =>
              /\ i < CurMax =>
                    /\ raised # excs[i]
                    /\ \/ calls > i
                       \/ /\ pc = "node"
                          /\ attempt = i
                          /\ ENABLED (RenderFails \/ ParseFails \/ AttemptFails)
              /\ i = CurMax =>
                    /\ pc = "raised"
                    /\ raised = excs[i]
                    /\ calls = CurMax
    /\ (pc = "raised" /\ raised.kind \in {"KeyError", "ValueError"}) =>
          /\ Len(excs) = CurMax
          /\ raised = excs[CurMax]

\* a step of max_attempts = 2 whose answer could not be parsed at the first
\* attempt and whose second attempt returned
C18_Witness_ParseFailureRetried ==
    /\ pc = "returned"
    /\ excs = <<ParseExc(1)>>
    /\ calls = 2
    /\ CurMax = 2

\* the fields of the current state that are outside the known-field set of an
\* engine that validates, and were not in the run's initial state
NewUnexpectedFields ==
    IF infer_state /\ known_fields # {}
    THEN ((DOMAIN state) \ known_fields) \ DOMAIN initial_state
    ELSE {}

\* C24: the state is validated after every step: once a step's update has been
\* merged and the next step selected, every field outside the known-field set
\* that the steps introduced has been warned about.
C24_ValidatedAfterEveryStep ==
    (runs >= 1 /\ Len(visited) >= 1) =>
        \A f \in NewUnexpectedFields : \E i \in 1..Len(warned) : f \in warned[i]

\* C25: whatever max_attempts is configured, a step execution ends by returning
\* the output of an attempt or by re-raising the exception of an attempt,
\* after at least one invocation of the executor; the fallback RuntimeError
\* after the loop is never raised.
C25_FallbackNeverRaised ==
    /\ raised # UnknownStepFailure
    /\ (cur # None /\ pc \in {"returned", "raised"}) =>
          /\ calls >= 1
          /\ pc = "raised" => Len(excs) >= 1 /\ raised = excs[Len(excs)]

\* C26: the attempt counter counts the attempts of the current execution of
\* the current step only: while the step is being executed it equals the
\* executor invocations and the failures of this execution, whatever steps
\* were executed before, and a further attempt is open as long as it is below
\* the step's max_attempts.
C26_AttemptCounterIsPerExecution ==
    (cur # None /\ pc \in {"node", "returned"}) =>
        /\ attempt = calls
        /\ pc = "node" => attempt = Len(excs)
        /\ pc = "returned" => attempt = Len(excs) + 1
        /\ attempt <= (IF CurMax < 0 THEN 0 ELSE CurMax)
        /\ (pc = "node" /\ attempt < CurMax) => ENABLED AttemptFails

\* the cycle A, B, A: the second execution of A, whose max_attempts is
\* MaxAttempts, has failed once and then returned at attempt MaxAttempts
C26_Witness_SecondVisitFullAttempts ==
    /\ visited = <<"A", "B">>
    /\ cur = "A"
    /\ pc = "returned"
    /\ CurMax = MaxAttempts
    /\ attempt = MaxAttempts
    /\ Len(excs) = MaxAttempts - 1

\* C27: the observer is called once for a step execution that succeeds, after
\* the successful attempt, and never for one in which every attempt of the
\* executor failed.
C27_ObserverOncePerSuccess ==
    (on_step /\ cur # None) =>
        /\ pc = "returned" => obs.calls = 1 /\ obs.name = cur
        /\ (pc = "raised" /\ OnlyExecutorFailures) => obs.calls = 0
        /\ pc = "node" => obs.calls = 0

\* the step types of the flow definition
TypesOf(fd) == {fd.steps[i].type : i \in 1..Len(fd.steps)}

\* C22: the factory of each step is the one its type was registered with when
\* the engine was constructed, and every executor instance of every run is
\* made by that factory, whatever was registered under the type afterwards;
\* and when a step's type was not registered at construction, construction
\* failed and no step is ever executed.
C22_FactoryResolvedAtConstruction ==
    /\ graph = "compiled" =>
          /\ \A ty \in TypesOf(flow_def) : Owed(ty, built_at) # "KeyError"
          /\ \A n \in nodes : factories[n] = Owed(StepCfg(flow_def, n).type, built_at)
          /\ \A i \in 1..Len(used) : used[i] = Owed(StepCfg(flow_def, cur).type, built_at)
    /\ (graph # "none" /\ \E ty \in TypesOf(flow_def) : Owed(ty, built_at) = "KeyError") =>
          /\ graph = "KeyError"
          /\ pc = "idle"
          /\ cur = None
          /\ calls = 0
          /\ visited = <<>>

\* a step executed after its type was registered anew, to another factory: the
\* instance was made by the factory registered at construction
C22_Witness_RegisteredAfterConstruction ==
    /\ graph = "compiled"
    /\ pc = "returned"
    /\ built_at < Len(registrations)
    /\ registrations[Len(registrations)].name = StepCfg(flow_def, cur).type
    /\ RegistryGet(executors, StepCfg(flow_def, cur).type) # factories[cur]
    /\ used = <<factories[cur]>>

\* the capital of a letter of yes and no
Capital(c) ==
    CASE c = "y" -> "Y"
      [] c = "e" -> "E"
      [] c = "s" -> "S"
      [] c = "n" -> "N"
      [] c = "o" -> "O"

\* the line is the word, in small letters or capitals, between blanks
Spells(line, word) ==
    \E i \in 0..Len(line) :
        /\ i + Len(word) <= Len(line)
        /\ \A k \in 1..i : line[k] \in {" ", "\t"}
        /\ \A k \in 1..Len(word) : line[i + k] \in {word[k], Capital(word[k])}
        /\ \A k \in (i + Len(word) + 1)..Len(line) : line[k] \in {" ", "\t"}

ValidLine(line) == Spells(line, Yes) \/ Spells(line, No)

\* C23: while the UserInputStep has not returned, every line typed so far was
\* invalid and the question has been presented again after each of them; it
\* has returned only on a line that is yes or no once trimmed and lower-cased,
\* all lines before it invalid; what it returned is the state it was given
\* with user_continue set to that answer and every other key as it was, and the
\* state it was given is as it was.
C23_UserInputAsksUntilValid ==
    /\ ui.pc = "input" =>
          /\ \A i \in 1..Len(ui.typed) : ~ValidLine(ui.typed[i])
          /\ ui.asked = Len(ui.typed) + 1
          /\ ui.complaints = Len(ui.typed)
    /\ ui.pc = "returned" =>
          LET n == Len(ui.typed)
              word == IF Spells(ui.typed[n], Yes) THEN Yes ELSE No
          IN  /\ n >= 1
              /\ ValidLine(ui.typed[n])
              /\ \A i \in 1..(n - 1) : ~ValidLine(ui.typed[i])
              /\ ui.asked = n
              /\ DOMAIN ui.out = (DOMAIN ui.given) \cup {"user_continue"}
              /\ ui.out["user_continue"] = word
              /\ \A k \in (DOMAIN ui.given) \ {"user_continue"} :
                     ui.out[k] = ui.given[k]
              /\ ui.state = ui.given

\* the step returned on a padded answer in capitals, typed after an invalid
\* line, for a state that had another key and another user_continue
C23_Witness_ReturnedAfterInvalid ==
    /\ ui.pc = "returned"
    /\ Len(ui.typed) >= 2
    /\ ui.typed[Len(ui.typed)] = <<"\t", "N", "O", " ", " ">>
    /\ DOMAIN ui.given = {"a", "user_continue"}
    /\ ui.given["user_continue"] = Yes
    /\ ui.out["user_continue"] = No

\* what a run on state s does when it is the only one: from node n on, after
\* the steps of seen and their numbers of attempts in tries
RECURSIVE AloneFrom(_, _, _, _, _)
AloneFrom(n, s, seen, tries, left) ==
    LET st == StepCfg(flow_def, n)
        max == MaxAttemptsOf(st.retry)
        merged == Merge(s, ExecutorOutput(st.type, s, llm[n].update))
        nxt == NextNode(flow_def, n, merged, condition_router, enabled)
    IN  IF max < 1
        THEN [pc |-> "raised", visited |-> seen, tries |-> Append(tries, 0),
              result |-> <<>>, raised |-> UnknownStepFailure]
        ELSE IF ~(st.prompt \subseteq DOMAIN s)
        THEN [pc |-> "raised", visited |-> seen, tries |-> Append(tries, max),
              result |-> <<>>, raised |-> RenderExc(max)]
        ELSE IF nxt.target = END
        THEN [pc |-> "done", visited |-> Append(seen, n), tries |-> Append(tries, 1),
              result |-> merged, raised |-> NoExc]
        ELSE IF left = 1
        THEN [pc |-> "cut", visited |-> Append(seen, n), tries |-> Append(tries, 1),
              result |-> <<>>, raised |-> NoExc]
        ELSE AloneFrom(nxt.target, merged, Append(seen, n), Append(tries, 1), left - 1)

Alone(s) == AloneFrom(flow_def.initial_step, s, <<>>, <<>>, MaxSteps)

\* C21: however the steps of two run calls on one engine interleave, each call
\* has made, at any time, no more attempts of any step than it makes alone on
\* its initial state, and when it has ended it has executed the same steps,
\* with the same number of attempts of each, and has returned the same state
\* or raised the same exception, as it does alone.
C21_ConcurrentRunsAreIsolated ==
    \A t \in Runs :
        LET r == threads[t]
            al == Alone(r.initial)
        IN  r.pc # "idle" =>
              /\ Len(r.tries) <= Len(al.tries)
              /\ \A i \in 1..Len(r.tries) : r.tries[i] <= al.tries[i]
              /\ \A i \in 1..Len(r.visited) : r.tries[i] = al.tries[i]
              /\ r.pc \in {"done", "raised"} =>
                    /\ r.pc = al.pc
                    /\ r.visited = al.visited
                    /\ r.tries = al.tries
                    /\ r.result = al.result
                    /\ r.raised = al.raised

\* both calls have ended, on different initial states: the first raised after
\* all its attempts of A, the second returned after A and B, having made an
\* attempt while the first was between two of its own
C21_Witness_InterleavedRetries ==
    /\ threads[1].pc = "raised"
    /\ threads[1].tries = <<MaxAttempts>>
    /\ threads[2].pc = "done"
    /\ threads[2].visited = <<"A", "B">>
    /\ threads[2].between
    /\ threads[1].initial # threads[2].initial

====
